---- MODULE Spec2Model ----
(***************************************************************************)
(* Model of the hex-to-Pantone matcher: the ColorAlgorithms module         *)
(* (src/js/color-algorithms.js) and the matching step of App               *)
(* (src/js/app.js).                                                        *)
(*                                                                         *)
(* Representation.                                                         *)
(*  - A JavaScript string is a sequence of one-character strings.          *)
(*  - JavaScript numbers are fixed-point integers.  Channel values given   *)
(*    to rgbToHex are in tenths (155 is 15.5).  Lab components and         *)
(*    distances are in hundredths (100 is 1.0); intermediate values of     *)
(*    the RGB -> Lab pipeline are in ten-thousandths.                      *)
(*  - null is the record [null |-> TRUE], different from every record      *)
(*    with fields r, g, b or L, a, b.                                      *)
(***************************************************************************)
EXTENDS Integers, Sequences, FiniteSets, TLC

VARIABLES
    hex,              \* argument of the hex functions under evaluation
    rgbIn,            \* argument triple of rgbToHex or rgbToHsl, in tenths
    dE,               \* argument of getDeltaEInterpretation, in hundredths
    labPair,          \* the two Lab arguments of a colour difference, in hundredths
    ret,              \* the last call and what it returned
    dataFile,         \* data.colors of data/pantone-colors.json
    appState,         \* "loading" until App.init has loaded the database
    pantoneColors,    \* App: the reference collection
    recentColors,     \* App: the recent-colours list
    hexInput,         \* value of the #hexInput element
    resultsContainer, \* what #resultsContainer shows
    localStorage,     \* window.localStorage, a function from keys to strings
    distanceCalls,    \* deltaE76 calls made by the last run of App.findMatches
    testRun,          \* outcome of the last run of the matching test script
    colorsData,       \* PantoneDatabase: the closure variable colorsData
    isLoaded,         \* PantoneDatabase: the closure variable isLoaded
    apiIsLoaded,      \* the member isLoaded of the object PantoneDatabase
    fetched,          \* requests made for data/pantone-colors.json
    loads             \* the calls of PantoneDatabase.load(), App.init's first

probeArgs == <<hex, rgbIn, dE, labPair>>
probeVars == <<hex, rgbIn, dE, labPair, ret>>
appVars == <<dataFile, appState, pantoneColors, recentColors, hexInput,
             resultsContainer, localStorage, distanceCalls, testRun>>
dbVars == <<colorsData, isLoaded, apiIsLoaded, fetched, loads>>
vars == <<hex, rgbIn, dE, labPair, ret, dataFile, appState, pantoneColors,
          recentColors, hexInput, resultsContainer, localStorage, distanceCalls,
          testRun, colorsData, isLoaded, apiIsLoaded, fetched, loads>>

----------------------------------------------------------------------------
(* Bounds and input sets *)

MaxLen == 7

Alphabet == {"#", "5", "a", "F", "g"}

\* the worked examples of the specification and of the test script
Examples ==
    { <<"#","F","F","5","7","3","3">>, <<"F","F","0","0","0","0">>,
      <<"#","F","F","0","0","0","0">>, <<"F","0","0">>, <<"#","f","0","0">>,
      <<"G","G","0","0","0","0">>, <<"F","F","0","0">>, << >>,
      <<"#","5","F","3","E","F","F">>, <<"#","E","3","0","0","F","F">>,
      <<"#","0","9","a","f","A","F">>, <<"#","b","C","d","D","e","E">>,
      <<"1","2","4","6","8","c">>, <<"#","B","c","1">> }

Strings == UNION { [1..n -> Alphabet] : n \in 0..MaxLen }

HexInputs == Strings \cup Examples

\* channel values in tenths: below 0, fractional, around 16 and 255, above 255
ChannelSamples == {-2560, -10, -4, 0, 5, 94, 155, 160, 2544, 2545, 2550, 2556, 2560, 5110}

\* integer channel values handed to rgbToHsl, in tenths: the ends, the middle
\* and the quarters of 0..255 and their neighbours
HslChannels ==
    { 10 * c : c \in {0, 1, 2, 3, 63, 64, 127, 128, 129, 191, 192, 252, 253, 254, 255} }

\* distances in hundredths
MaxDeltaE == 6000

\* Lab triples handed to the colour differences, in hundredths: the ends and
\* the middle of the lightness axis; a and b at the ends of their usual
\* range, at zero and next to zero, and in between
LSamples == {0, 5000, 10000}
ABSamples == {-12800, -1, 0, 2500, 12700}
\* a colour whose hue is the last angle below 360 degrees
HueBelowFullTurn == [L |-> 5000, a |-> 4000, b |-> -1]
LabSamples == [L : LSamples, a : ABSamples, b : ABSamples] \cup {HueBelowFullTurn}

\* longest reference collection drawn entry by entry
MaxPalette == 3

----------------------------------------------------------------------------
(* Characters *)

DecimalDigits == {"0","1","2","3","4","5","6","7","8","9"}

\* String.prototype.toUpperCase on one character (ASCII letters)
toUpperCase(c) ==
    CASE c = "a" -> "A" [] c = "b" -> "B" [] c = "c" -> "C" [] c = "d" -> "D"
      [] c = "e" -> "E" [] c = "f" -> "F" [] c = "g" -> "G" [] c = "z" -> "Z"
      [] OTHER -> c

\* String.prototype.toLowerCase on one character (ASCII letters)
toLowerCase(c) ==
    CASE c = "A" -> "a" [] c = "B" -> "b" [] c = "C" -> "c" [] c = "D" -> "d"
      [] c = "E" -> "e" [] c = "F" -> "f" [] c = "G" -> "g" [] c = "Z" -> "z"
      [] OTHER -> c

\* the character class [0-9A-F] under the i flag: a character matches when
\* its canonical (upper-case) form is in the class
ClassHexI(c) == toUpperCase(c) \in DecimalDigits \cup {"A","B","C","D","E","F"}

\* digit value used by parseInt(s, 16); -1 when c is not a hex digit
DigitValue(c) ==
    LET u == toUpperCase(c) IN
    CASE u = "0" -> 0 [] u = "1" -> 1 [] u = "2" -> 2 [] u = "3" -> 3
      [] u = "4" -> 4 [] u = "5" -> 5 [] u = "6" -> 6 [] u = "7" -> 7
      [] u = "8" -> 8 [] u = "9" -> 9 [] u = "A" -> 10 [] u = "B" -> 11
      [] u = "C" -> 12 [] u = "D" -> 13 [] u = "E" -> 14 [] u = "F" -> 15
      [] OTHER -> -1

\* digits produced by Number.prototype.toString(16)
Digit16 == <<"0","1","2","3","4","5","6","7","8","9","a","b","c","d","e","f">>

----------------------------------------------------------------------------
(* String and number primitives *)

null == [null |-> TRUE]

\* hex.replace(/^#/, ''): removes one '#' at the start of the string
replaceHash(s) == IF Len(s) > 0 /\ s[1] = "#" THEN Tail(s) ELSE s

\* variant: the pattern without its end anchor, /^[0-9A-F]{n}/i
testHexN_unanchored(s, n) == Len(s) >= n /\ \A i \in 1..n : ClassHexI(s[i])

\* /^[0-9A-F]{n}$/i.test(s)
testHexN(s, n) == Len(s) = n /\ \A i \in 1..Len(s) : ClassHexI(s[i])

\* variant: the string repeated instead of each character
doubleChars_repeat(s) == s \o s

\* hex.split('').map(char => char + char).join('')
RECURSIVE doubleChars(_)
doubleChars(s) ==
    IF s = << >> THEN << >> ELSE <<Head(s), Head(s)>> \o doubleChars(Tail(s))

Min(x, y) == IF x < y THEN x ELSE y
Max(x, y) == IF x > y THEN x ELSE y

\* hex.substring(from, to), 0-based, end exclusive, indices clamped to the length
substring(s, from, to) == SubSeq(s, Min(from, Len(s)) + 1, Min(to, Len(s)))

\* variant: the digits weighted as in base 10
RECURSIVE parseInt16_radix10(_)
parseInt16_radix10(s) ==
    IF s = << >> THEN 0
    ELSE 10 * parseInt16_radix10(SubSeq(s, 1, Len(s) - 1)) + DigitValue(s[Len(s)])

\* parseInt(s, 16) on a string of hex digits
RECURSIVE parseInt16(_)
parseInt16(s) ==
    IF s = << >> THEN 0
    ELSE 16 * parseInt16(SubSeq(s, 1, Len(s) - 1)) + DigitValue(s[Len(s)])

\* n.toString(16) for an integer n >= 0
RECURSIVE toString16(_)
toString16(n) ==
    IF n < 16 THEN <<Digit16[n + 1]>>
    ELSE toString16(n \div 16) \o <<Digit16[(n % 16) + 1]>>

\* Math.round on a value in tenths: the nearest integer, halves going up
MathRound(t) == (t + 5) \div 10

----------------------------------------------------------------------------
(* ColorAlgorithms: hex <-> RGB *)

\* variant: the shorthand form is not expanded
hexToRgb_sixOnly(h) ==
    LET stripped == replaceHash(h)
    IN  IF ~testHexN(stripped, 6) THEN null
        ELSE [ r |-> parseInt16(substring(stripped, 0, 2)),
               g |-> parseInt16(substring(stripped, 2, 4)),
               b |-> parseInt16(substring(stripped, 4, 6)) ]

hexToRgb(h) ==
    LET stripped == replaceHash(h)
        expanded == IF Len(stripped) = 3 THEN doubleChars(stripped) ELSE stripped
    IN  IF ~testHexN(expanded, 6) THEN null
        ELSE [ r |-> parseInt16(substring(expanded, 0, 2)),
               g |-> parseInt16(substring(expanded, 2, 4)),
               b |-> parseInt16(substring(expanded, 4, 6)) ]

\* variant: no zero padding
toHex_noPad(value) == toString16(MathRound(Max(0, Min(2550, value))))

\* variant: the rounded value wrapped into 0..255 instead of clamped
toHex_wrap(value) ==
    LET s == toString16(MathRound(value) % 256)
    IN  IF Len(s) = 1 THEN <<"0">> \o s ELSE s

toHex(value) ==
    LET s == toString16(MathRound(Max(0, Min(2550, value))))
    IN  IF Len(s) = 1 THEN <<"0">> \o s ELSE s

rgbToHex(r, g, b) == <<"#">> \o toHex(r) \o toHex(g) \o toHex(b)

\* variant: the alternatives without their end anchors
isValidHex_unanchored(h) ==
    LET stripped == replaceHash(h)
    IN  testHexN_unanchored(stripped, 3) \/ testHexN_unanchored(stripped, 6)

isValidHex(h) ==
    LET stripped == replaceHash(h)
    IN  testHexN(stripped, 3) \/ testHexN(stripped, 6)

----------------------------------------------------------------------------
(* ColorAlgorithms: RGB -> Lab.  Values between the steps are integers in  *)
(* ten-thousandths (10000 is 1.0); every division truncates, so a result   *)
(* is within a few tenths of a Lab unit of the floating-point one.         *)

\* largest n in lo..hi whose fifth power (in ten-thousandths) is at most v
RECURSIVE root5(_, _, _)
root5(lo, hi, v) ==
    IF lo >= hi THEN lo
    ELSE LET mid == (lo + hi + 1) \div 2
             p2  == (mid * mid) \div 10000
             p4  == (p2 * p2) \div 10000
             p5  == (p4 * mid) \div 10000
         IN  IF p5 <= v THEN root5(mid, hi, v) ELSE root5(lo, mid - 1, v)

\* Math.pow(x, 2.4) = x^2 * (x^2)^(1/5), for x in 0..10000
pow24(x) ==
    LET sq == (x * x) \div 10000
    IN  (sq * root5(0, 10000, sq)) \div 10000

\* largest n in lo..hi whose cube (in ten-thousandths) is at most v
RECURSIVE root3(_, _, _)
root3(lo, hi, v) ==
    IF lo >= hi THEN lo
    ELSE LET mid == (lo + hi + 1) \div 2
             p3  == (((mid * mid) \div 10000) * mid) \div 10000
         IN  IF p3 <= v THEN root3(mid, hi, v) ELSE root3(lo, mid - 1, v)

\* Math.pow(value, 1/3)
pow13(value) == root3(0, 10200, value)

\* sRGB gamma: value > 0.04045 ? ((value + 0.055) / 1.055) ^ 2.4 : value / 12.92
\* (a function, so that its values are computed once)
toLinear ==
    [value \in 0..10000 |->
        IF value * 10 > 4045
        THEN pow24(((value + 550) * 1000) \div 1055)
        ELSE (value * 100) \div 1292]

\* Lab nonlinearity: value > 0.008856 ? cbrt(value) : 7.787 * value + 16/116
\* (a function, so that its values are computed once)
transform ==
    [value \in 0..10200 |->
        IF value * 100 > 8856
        THEN pow13(value)
        ELSE (7787 * value) \div 1000 + 1379]

\* r, g, b are integers 0..255; the result is in hundredths of a Lab unit
rgbToLab(r, g, b) ==
    LET r1 == toLinear[(r * 10000) \div 255]
        g1 == toLinear[(g * 10000) \div 255]
        b1 == toLinear[(b * 10000) \div 255]
        x0 == (r1 * 41246 + g1 * 35758 + b1 * 18044) \div 100000
        y0 == (r1 * 21267 + g1 * 71515 + b1 * 7218) \div 100000
        z0 == (r1 * 1933 + g1 * 11919 + b1 * 95030) \div 100000
        x  == transform[(x0 * 100000) \div 95047]
        y  == transform[(y0 * 100000) \div 100000]
        z  == transform[(z0 * 100000) \div 108883]
    IN  [ L |-> (116 * y) \div 100 - 1600,
          a |-> 5 * (x - y),
          b |-> 2 * (y - z) ]

\* variant: an invalid input converted as black instead of returning null
hexToLab_blackOnInvalid(h) ==
    LET rgb == hexToRgb(h)
    IN  IF rgb = null THEN rgbToLab(0, 0, 0) ELSE rgbToLab(rgb.r, rgb.g, rgb.b)

hexToLab(h) ==
    LET rgb == hexToRgb(h)
    IN  IF rgb = null THEN null ELSE rgbToLab(rgb.r, rgb.g, rgb.b)

\* the functions hexToLab(h) calls, in call order
hexToLabCalls(h) ==
    LET rgb == hexToRgb(h)
    IN  IF rgb = null THEN <<"hexToRgb">> ELSE <<"hexToRgb", "rgbToLab">>

----------------------------------------------------------------------------
(* ColorAlgorithms: difference and its interpretation *)

\* Math.sqrt, rounded down: the largest n in lo..hi with n * n <= v
RECURSIVE sqrtSearch(_, _, _)
sqrtSearch(lo, hi, v) ==
    IF lo >= hi THEN lo
    ELSE LET mid == (lo + hi + 1) \div 2
         IN  IF mid * mid <= v THEN sqrtSearch(mid, hi, v)
             ELSE sqrtSearch(lo, mid - 1, v)

MathSqrt(v) == sqrtSearch(0, 46340, v)

\* variant: the b components left out of the sum
deltaE76_withoutB(lab1, lab2) ==
    LET dL == lab1.L - lab2.L
        da == lab1.a - lab2.a
    IN  MathSqrt(dL * dL + da * da)

\* variant: the lightness term taken from lab1 alone
deltaE76_firstL(lab1, lab2) ==
    LET dL == lab1.L
        da == lab1.a - lab2.a
        db == lab1.b - lab2.b
    IN  MathSqrt(dL * dL + da * da + db * db)

\* Lab components in hundredths give a distance in hundredths
deltaE76(lab1, lab2) ==
    LET dL == lab1.L - lab2.L
        da == lab1.a - lab2.a
        db == lab1.b - lab2.b
    IN  MathSqrt(dL * dL + da * da + db * db)

\* variant: the thresholds compared with <= instead of <
getDeltaEInterpretation_inclusive(deltaE) ==
    IF deltaE <= 100
    THEN [rating |-> "Perfect", description |-> "Not perceptible by human eyes", class |-> "perfect"]
    ELSE IF deltaE <= 200
    THEN [rating |-> "Excellent", description |-> "Perceptible through close observation", class |-> "excellent"]
    ELSE IF deltaE <= 1000
    THEN [rating |-> "Good", description |-> "Perceptible at a glance", class |-> "good"]
    ELSE IF deltaE <= 5000
    THEN [rating |-> "Fair", description |-> "Colors are more similar than opposite", class |-> "fair"]
    ELSE [rating |-> "Poor", description |-> "Colors are significantly different", class |-> "poor"]

\* deltaE in hundredths: 1.0 is 100, 2.0 is 200, 10.0 is 1000, 50.0 is 5000
getDeltaEInterpretation(deltaE) ==
    IF deltaE < 100
    THEN [rating |-> "Perfect", description |-> "Not perceptible by human eyes", class |-> "perfect"]
    ELSE IF deltaE < 200
    THEN [rating |-> "Excellent", description |-> "Perceptible through close observation", class |-> "excellent"]
    ELSE IF deltaE < 1000
    THEN [rating |-> "Good", description |-> "Perceptible at a glance", class |-> "good"]
    ELSE IF deltaE < 5000
    THEN [rating |-> "Fair", description |-> "Colors are more similar than opposite", class |-> "fair"]
    ELSE [rating |-> "Poor", description |-> "Colors are significantly different", class |-> "poor"]


----------------------------------------------------------------------------
(* ColorAlgorithms: deltaE2000.  Lab components, chromas and differences   *)
(* are in hundredths, angles in hundredths of a degree, and the factors    *)
(* G, T, SL, SC, SH, RC, RT and the values of sin, cos and exp in          *)
(* ten-thousandths.  A quotient is rounded to the nearest integer, halves  *)
(* away from zero, so that negating the dividend negates the quotient as   *)
(* it does in floating point.                                              *)

\* what Math.sqrt of a negative number and 0 / 0 give; no square root is
\* negative, so -1 stands for it
NaN == -1

\* n / d for d > 0
divRound(n, d) ==
    IF n < 0 THEN -((d \div 2 - n) \div d) ELSE (n + d \div 2) \div d

\* Math.sin on 0..90 degrees, by the series of sin in x = angle * PI / 180
sinQuadrant ==
    [d \in 0..9000 |->
        LET x  == divRound(d * 31416, 18000)
            x2 == divRound(x * x, 10000)
            t4 == 10000 - divRound(x2, 72)
            t3 == 10000 - divRound(divRound(x2 * t4, 10000), 42)
            t2 == 10000 - divRound(divRound(x2 * t3, 10000), 20)
            t1 == 10000 - divRound(divRound(x2 * t2, 10000), 6)
        IN  Min(10000, divRound(x * t1, 10000))]

\* Math.sin(angle * PI / 180) for an angle in hundredths of a degree
sinDeg(angle) ==
    LET t == angle % 36000
    IN  IF t <= 9000 THEN sinQuadrant[t]
        ELSE IF t <= 18000 THEN sinQuadrant[18000 - t]
        ELSE IF t <= 27000 THEN -sinQuadrant[t - 18000]
        ELSE -sinQuadrant[36000 - t]

\* Math.cos(angle * PI / 180)
cosDeg(angle) == sinDeg(angle + 9000)

\* the angle in 0..90 degrees of the vector (x, y), x >= 0, y >= 0, not both
\* 0: the largest angle whose tangent is at most y / x
RECURSIVE atanSearch(_, _, _, _)
atanSearch(lo, hi, y, x) ==
    IF lo >= hi THEN lo
    ELSE LET mid == (lo + hi + 1) \div 2
         IN  IF sinQuadrant[mid] * x <= sinQuadrant[9000 - mid] * y
             THEN atanSearch(mid, hi, y, x)
             ELSE atanSearch(lo, mid - 1, y, x)

\* Math.atan2(y, x) * 180 / Math.PI, in -180..180 degrees
atan2Deg(y, x) ==
    IF x = 0 /\ y = 0 THEN 0
    ELSE LET base == atanSearch(0, 9000, IF y < 0 THEN -y ELSE y, IF x < 0 THEN -x ELSE x)
         IN  IF y >= 0 THEN (IF x >= 0 THEN base ELSE 18000 - base)
             ELSE (IF x >= 0 THEN -base ELSE base - 18000)

\* Math.exp(-u) for u >= 0 in ten-thousandths: e^-1 once for each unit of u
\* and the series of exp for the rest
RECURSIVE expNeg(_)
expNeg(u) ==
    IF u >= 100000 THEN 0
    ELSE IF u >= 10000 THEN divRound(3679 * expNeg(u - 10000), 10000)
    ELSE LET t7 == 10000 - divRound(u, 7)
             t6 == 10000 - divRound(divRound(u * t7, 10000), 6)
             t5 == 10000 - divRound(divRound(u * t6, 10000), 5)
             t4 == 10000 - divRound(divRound(u * t5, 10000), 4)
             t3 == 10000 - divRound(divRound(u * t4, 10000), 3)
             t2 == 10000 - divRound(divRound(u * t3, 10000), 2)
         IN  10000 - divRound(u * t2, 10000)

MathAbs(x) == IF x < 0 THEN -x ELSE x

\* the weights kL, kC, kH
kL == 1
kC == 1
kH == 1

\* Math.sqrt(a * a + b * b)
chroma(a, b) == MathSqrt(a * a + b * b)

\* x to the power 7, for x in 0..10000 (1.0 is 10000)
pow7(x) ==
    LET x2 == divRound(x * x, 10000)
        x4 == divRound(x2 * x2, 10000)
        x6 == divRound(x4 * x2, 10000)
    IN  divRound(x6 * x, 10000)

\* Math.pow(x, 7) divided by the 7th power of the larger of C and 25, so
\* that the powers of C and of 25 are both in 0..10000
pow7Scaled(x, C) == pow7(divRound(x * 10000, Max(C, 2500)))

\* variant: the 7th power of 25 left out of the divisor
pow7Divisor_noOffset(C) == pow7Scaled(C, C)

\* the divisor Math.pow(C, 7) + Math.pow(25, 7)
pow7Divisor(C) == pow7Scaled(C, C) + pow7Scaled(2500, C)

\* Math.pow(C, 7) / (Math.pow(C, 7) + Math.pow(25, 7)); where the divisor
\* is 0 the value is not used, deltaE2000 returns NaN
pow7Ratio(C) ==
    IF pow7Divisor(C) = 0 THEN 0
    ELSE divRound(pow7Scaled(C, C) * 10000, pow7Divisor(C))

\* G = 0.5 * (1 - Math.sqrt(pow7Ratio(Cab)))
G(Cab) == divRound(10000 - MathSqrt(pow7Ratio(Cab) * 10000), 2)

\* (1 + G) * a
aprime(g, a) == divRound((10000 + g) * a, 10000)

\* (Math.atan2(b, aprime) * 180 / Math.PI + 360) % 360
hprime(b, ap) == (atan2Deg(b, ap) + 36000) % 36000

\* variant: the lightness of lab1 read from its a component
deltaLprime_wrongField(lab1, lab2) == lab2.L - lab1.a

deltaLprime(lab1, lab2) == lab2.L - lab1.L

\* the hue difference from the chromas C1prime, C2prime and the hues
\* h1prime, h2prime
\* variant: 360 subtracted in both wrapping branches
deltahprime_subtractOnly(c1, c2, h1, h2) ==
    IF c1 * c2 = 0 THEN 0
    ELSE IF MathAbs(h2 - h1) <= 18000 THEN h2 - h1
    ELSE h2 - h1 - 36000

deltahprime(c1, c2, h1, h2) ==
    IF c1 * c2 = 0 THEN 0
    ELSE IF MathAbs(h2 - h1) <= 18000 THEN h2 - h1
    ELSE IF h2 - h1 > 18000 THEN h2 - h1 - 36000
    ELSE h2 - h1 + 36000

\* 2 * Math.sqrt(C1prime * C2prime) * Math.sin(deltahprime * Math.PI / 360)
deltaHprime(c1, c2, dh) ==
    divRound(2 * MathSqrt(c1 * c2) * sinDeg(divRound(dh, 2)), 10000)

\* variant: the hues compared without Math.abs
Hbarprime_withoutAbs(c1, c2, h1, h2) ==
    IF c1 * c2 = 0 THEN h1 + h2
    ELSE IF h1 - h2 <= 18000 THEN divRound(h1 + h2, 2)
    ELSE IF h1 + h2 < 36000 THEN divRound(h1 + h2 + 36000, 2)
    ELSE divRound(h1 + h2 - 36000, 2)

\* variant: 360 added in both wrapping branches
Hbarprime_addOnly(c1, c2, h1, h2) ==
    IF c1 * c2 = 0 THEN h1 + h2
    ELSE IF MathAbs(h1 - h2) <= 18000 THEN divRound(h1 + h2, 2)
    ELSE divRound(h1 + h2 + 36000, 2)

\* the mean hue
Hbarprime(c1, c2, h1, h2) ==
    IF c1 * c2 = 0 THEN h1 + h2
    ELSE IF MathAbs(h1 - h2) <= 18000 THEN divRound(h1 + h2, 2)
    ELSE IF h1 + h2 < 36000 THEN divRound(h1 + h2 + 36000, 2)
    ELSE divRound(h1 + h2 - 36000, 2)

\* T, from the mean hue
T(H) ==
    10000 - divRound(17 * cosDeg(H - 3000), 100)
          + divRound(24 * cosDeg(2 * H), 100)
          + divRound(32 * cosDeg(3 * H + 600), 100)
          - divRound(20 * cosDeg(4 * H - 6300), 100)

\* the divisor Math.sqrt(20 + Math.pow(Lbarprime - 50, 2))
SLDivisor(Lbar) == MathSqrt(200000 + (Lbar - 5000) * (Lbar - 5000))

\* SL = 1 + 0.015 * Math.pow(Lbarprime - 50, 2) / SLDivisor
SL(Lbar) ==
    IF SLDivisor(Lbar) = 0 THEN 0
    ELSE 10000 + divRound(3 * (Lbar - 5000) * (Lbar - 5000), 2 * SLDivisor(Lbar))

\* SC = 1 + 0.045 * Cbarprime
SC(Cbar) == 10000 + divRound(9 * Cbar, 2)

\* SH = 1 + 0.015 * Cbarprime * T
SH(Cbar, t) == 10000 + divRound(3 * divRound(Cbar * t, 10000), 2)

\* 30 * Math.exp(-Math.pow((Hbarprime - 275) / 25, 2)); the exponential is
\* below 0.00005 where (Hbarprime - 275) / 25 is beyond 4
deltaTheta(H) ==
    LET q == 4 * (H - 27500)
    IN  IF MathAbs(q) > 40000 THEN 0
        ELSE divRound(3 * expNeg(divRound(q * q, 10000)), 10)

\* RC = 2 * Math.sqrt(pow7Ratio(Cbarprime))
RC(Cbar) == 2 * MathSqrt(pow7Ratio(Cbar) * 10000)

\* RT = -RC * Math.sin(2 * deltaTheta * Math.PI / 180)
RT(rc, dTheta) == -divRound(rc * sinDeg(2 * dTheta), 10000)

\* n / d where d may be 0: the value is then not used, deltaE2000 returns NaN
quotient(n, d) == IF d = 0 THEN 0 ELSE divRound(n, d)

\* lines 148-151: the chromas and their mean
chromaTerms(lab1, lab2) ==
    LET c1 == chroma(lab1.a, lab1.b)
        c2 == chroma(lab2.a, lab2.b)
    IN  [C1 |-> c1, C2 |-> c2, Cab |-> divRound(c1 + c2, 2)]

\* lines 153-162: G and the adjusted chromas and hues
primeTerms(lab1, lab2, Cab) ==
    LET g == G(Cab)
        a1p == aprime(g, lab1.a)
        a2p == aprime(g, lab2.a)
    IN  [ G |-> g,
          C1prime |-> chroma(a1p, lab1.b), C2prime |-> chroma(a2p, lab2.b),
          h1prime |-> hprime(lab1.b, a1p), h2prime |-> hprime(lab2.b, a2p) ]

\* lines 164-178: the differences, from the record p of primeTerms
differenceTerms(lab1, lab2, p) ==
    LET dh == deltahprime(p.C1prime, p.C2prime, p.h1prime, p.h2prime)
    IN  [ deltaLprime |-> deltaLprime(lab1, lab2),
          deltaCprime |-> p.C2prime - p.C1prime,
          deltahprime |-> dh,
          deltaHprime |-> deltaHprime(p.C1prime, p.C2prime, dh) ]

\* lines 180-192: the means
meanTerms(lab1, lab2, p) ==
    [ Lbarprime |-> divRound(lab1.L + lab2.L, 2),
      Cbarprime |-> divRound(p.C1prime + p.C2prime, 2),
      Hbarprime |-> Hbarprime(p.C1prime, p.C2prime, p.h1prime, p.h2prime) ]

\* lines 194-206: the weights, from the record m of meanTerms
weightTerms(m) ==
    LET t == T(m.Hbarprime)
    IN  [ T |-> t, SL |-> SL(m.Lbarprime), SC |-> SC(m.Cbarprime),
          SH |-> SH(m.Cbarprime, t),
          RT |-> RT(RC(m.Cbarprime), deltaTheta(m.Hbarprime)) ]

\* lines 208-213: the four terms under the square root, from the records d
\* of differenceTerms and w of weightTerms
rootTerms(d, w) ==
    LET lTerm == quotient(d.deltaLprime * 10000, kL * w.SL)
        cTerm == quotient(d.deltaCprime * 10000, kC * w.SC)
        hTerm == quotient(d.deltaHprime * 10000, kH * w.SH)
    IN  << lTerm * lTerm, cTerm * cTerm, hTerm * hTerm,
           divRound(w.RT * cTerm, 10000) * hTerm >>

\* the values of lines 148-213 under their names in the code, from the
\* records of the steps above
termsRecord(c, p, d, m, w, squares) ==
    [ C1 |-> c.C1, C2 |-> c.C2, Cab |-> c.Cab, G |-> p.G,
      C1prime |-> p.C1prime, C2prime |-> p.C2prime,
      h1prime |-> p.h1prime, h2prime |-> p.h2prime,
      deltaLprime |-> d.deltaLprime, deltaCprime |-> d.deltaCprime,
      deltahprime |-> d.deltahprime, deltaHprime |-> d.deltaHprime,
      Lbarprime |-> m.Lbarprime, Cbarprime |-> m.Cbarprime,
      Hbarprime |-> m.Hbarprime,
      T |-> w.T, SL |-> w.SL, SC |-> w.SC, SH |-> w.SH, RT |-> w.RT,
      divisors |-> << pow7Divisor(c.Cab), SLDivisor(m.Lbarprime), kL * w.SL,
                      kC * w.SC, kH * w.SH, pow7Divisor(m.Cbarprime) >>,
      squares |-> squares,
      radicand |-> squares[1] + squares[2] + squares[3] + squares[4] ]

\* each step is handed the records of the steps before it
termsFromWeights(c, p, d, m, w) == termsRecord(c, p, d, m, w, rootTerms(d, w))

termsFromMeans(c, p, d, m) == termsFromWeights(c, p, d, m, weightTerms(m))

termsFromPrimes(lab1, lab2, c, p) ==
    termsFromMeans(c, p, differenceTerms(lab1, lab2, p), meanTerms(lab1, lab2, p))

termsFromChromas(lab1, lab2, c) ==
    termsFromPrimes(lab1, lab2, c, primeTerms(lab1, lab2, c.Cab))

\* the values deltaE2000 computes on its way
deltaE2000Terms(lab1, lab2) == termsFromChromas(lab1, lab2, chromaTerms(lab1, lab2))

\* line 208: Math.sqrt of the sum of the four terms; NaN also stands for
\* the infinities
finalRoot(terms) ==
    IF \E i \in 1..Len(terms.divisors) : terms.divisors[i] = 0 THEN NaN
    ELSE IF terms.radicand < 0 THEN NaN
    ELSE MathSqrt(terms.radicand)

\* deltaE2000(lab1, lab2), in hundredths
deltaE2000(lab1, lab2) == finalRoot(deltaE2000Terms(lab1, lab2))

----------------------------------------------------------------------------
(* App: constants and helpers *)

MAX_RECENT == 10
MAX_RESULTS == 10

\* String.prototype.toLowerCase on a string
lower(s) == [i \in 1..Len(s) |-> toLowerCase(s[i])]

\* variant: the element at index k kept as well
slice_throughEnd(s, k) == SubSeq(s, 1, Min(k + 1, Len(s)))

\* Array.prototype.slice(0, k)
slice(s, k) == SubSeq(s, 1, Min(k, Len(s)))

\* variant: the comparator with its operands exchanged
compareDeltaE_descending(a, b) == b.deltaE - a.deltaE

\* the comparator (a, b) => a.deltaE - b.deltaE
compareDeltaE(a, b) == a.deltaE - b.deltaE

\* variant: x goes in front of the elements it compares equal to
RECURSIVE insertSorted_beforeEquals(_, _)
insertSorted_beforeEquals(x, sorted) ==
    IF sorted = << >> THEN <<x>>
    ELSE IF compareDeltaE(Head(sorted), x) < 0
         THEN <<Head(sorted)>> \o insertSorted_beforeEquals(x, Tail(sorted))
         ELSE <<x>> \o sorted

\* Array.prototype.sort(compareDeltaE): a stable sort, x goes behind every
\* element that does not compare greater than it
RECURSIVE insertSorted(_, _)
insertSorted(x, sorted) ==
    IF sorted = << >> THEN <<x>>
    ELSE IF compareDeltaE(Head(sorted), x) <= 0
         THEN <<Head(sorted)>> \o insertSorted(x, Tail(sorted))
         ELSE <<x>> \o sorted

RECURSIVE sort(_)
sort(rows) ==
    IF rows = << >> THEN << >>
    ELSE insertSorted(rows[Len(rows)], sort(SubSeq(rows, 1, Len(rows) - 1)))

\* { ...pantone, deltaE: distance, match: ((100 - min(distance, 100)) / 100) * 100 }
withDistance(inputLab, pantone) ==
    LET distance == deltaE76(inputLab, pantone.lab)
    IN  [ name |-> pantone.name, code |-> pantone.code, rgb |-> pantone.rgb,
          hex |-> pantone.hex, lab |-> pantone.lab,
          deltaE |-> distance,
          match |-> 10000 - Min(distance, 10000) ]

\* { ...pantone, deltaE: distance } of the test script
withDeltaE(inputLab, pantone) ==
    [ name |-> pantone.name, code |-> pantone.code, rgb |-> pantone.rgb,
      hex |-> pantone.hex, lab |-> pantone.lab,
      deltaE |-> deltaE76(inputLab, pantone.lab) ]

\* variant: the slice taken before the sort
sortAndSlice_sliceFirst(rows, limit) == sort(slice(rows, limit))

\* rows.sort(compareDeltaE).slice(0, limit)
sortAndSlice(rows, limit) == slice(sort(rows), limit)

\* App.findMatches: pantoneColors.map(...).sort(...).slice(0, MAX_RESULTS)
closestMatches(inputLab, colors) ==
    sortAndSlice([i \in 1..Len(colors) |-> withDistance(inputLab, colors[i])], MAX_RESULTS)

\* variant: the callback of map assigns deltaE and match to the entry itself
collectionAfterMatch_assignInPlace(inputLab, colors) ==
    [i \in 1..Len(colors) |-> withDistance(inputLab, colors[i])]

\* what pantoneColors holds after map(...).sort(...).slice(...): map builds a
\* new array of new objects, and that array is the one sort reorders
collectionAfterMatch(inputLab, colors) == colors

\* test script: data.colors.map(...).sort(...).slice(0, 5)
testMatches(inputLab, colors) ==
    sortAndSlice([i \in 1..Len(colors) |-> withDeltaE(inputLab, colors[i])], 5)

\* recentColors.filter(c => c.toLowerCase() !== hex.toLowerCase())
RECURSIVE filterNot(_, _)
filterNot(list, h) ==
    IF list = << >> THEN << >>
    ELSE IF lower(Head(list)) # lower(h)
         THEN <<Head(list)>> \o filterNot(Tail(list), h)
         ELSE filterNot(Tail(list), h)

\* variant: the colour pushed at the end of the list
addToRecent_push(list, h) ==
    LET pushed == filterNot(list, h) \o <<h>>
    IN  IF Len(pushed) > MAX_RECENT THEN slice(pushed, MAX_RECENT)
        ELSE pushed

\* variant: the entry to remove compared without toLowerCase
addToRecent_caseSensitive(list, h) ==
    LET unshifted == <<h>> \o SelectSeq(list, LAMBDA c : c # h)
    IN  IF Len(unshifted) > MAX_RECENT THEN slice(unshifted, MAX_RECENT)
        ELSE unshifted

\* the list addToRecent leaves in recentColors
addToRecent(list, h) ==
    LET unshifted == <<h>> \o filterNot(list, h)
    IN  IF Len(unshifted) > MAX_RECENT THEN slice(unshifted, MAX_RECENT)
        ELSE unshifted

\* JSON.stringify of an array of strings that need no escaping
RECURSIVE joinQuoted(_)
joinQuoted(list) ==
    IF list = << >> THEN << >>
    ELSE <<"\"">> \o Head(list) \o <<"\"">>
         \o (IF Len(list) > 1 THEN <<",">> ELSE << >>) \o joinQuoted(Tail(list))

JSONstringify(list) == <<"[">> \o joinQuoted(list) \o <<"]">>

\* JSON.parse of such a text: the strings between successive pairs of quotes
RECURSIVE parseItems(_, _, _, _)
parseItems(text, inString, current, items) ==
    IF text = << >> THEN items
    ELSE IF Head(text) = "\""
         THEN IF inString
              THEN parseItems(Tail(text), FALSE, << >>, Append(items, current))
              ELSE parseItems(Tail(text), TRUE, << >>, items)
         ELSE IF inString
              THEN parseItems(Tail(text), TRUE, Append(current, Head(text)), items)
              ELSE parseItems(Tail(text), FALSE, current, items)

JSONparse(text) == parseItems(text, FALSE, << >>, << >>)

\* localStorage.setItem(key, value)
setItem(store, key, value) ==
    [k \in DOMAIN store \cup {key} |-> IF k = key THEN value ELSE store[k]]

\* the list loadRecentColors leaves in recentColors (a missing or empty item
\* leaves the list as it was)
loadRecentColors(store, list) ==
    IF "recentColors" \in DOMAIN store /\ store["recentColors"] # << >>
    THEN JSONparse(store["recentColors"])
    ELSE list

----------------------------------------------------------------------------
(* The reference data *)

QueryHex == <<"#","F","F","5","7","3","3">>

\* three swatches: the Lab of QueryHex, and two Labs 5.00 away from it on
\* opposite sides
Swatches ==
    LET q == hexToLab(QueryHex)
    IN  << [hex |-> QueryHex, rgb |-> hexToRgb(QueryHex), lab |-> q],
           [hex |-> <<"#","F","F","5","E","2","9">>, rgb |-> [r |-> 255, g |-> 94, b |-> 41],
            lab |-> [L |-> q.L + 300, a |-> q.a, b |-> q.b + 400]],
           [hex |-> <<"#","F","5","4","F","3","D">>, rgb |-> [r |-> 245, g |-> 79, b |-> 61],
            lab |-> [L |-> q.L - 300, a |-> q.a, b |-> q.b - 400]] >>

\* a reference collection: entry i is swatch choice[i] under its own name
Collection(choice) ==
    [i \in 1..Len(choice) |->
        [ name |-> <<"PANTONE", i, "C">>, code |-> <<i, "-c">>,
          rgb |-> Swatches[choice[i]].rgb, hex |-> Swatches[choice[i]].hex,
          lab |-> Swatches[choice[i]].lab ]]

\* collections longer than MAX_RESULTS, so that the slice removes entries
LongChoices ==
    { [i \in 1..(MAX_RESULTS + 2) |-> (i % 3) + 1],
      [i \in 1..(MAX_RESULTS + 1) |-> IF i = MAX_RESULTS + 1 THEN 1 ELSE 3] }

Palettes ==
    { Collection(c) : c \in UNION { [1..n -> 1..3] : n \in 0..MaxPalette } \cup LongChoices }

\* what the user types, what the colour picker offers
TypedValues ==
    { <<"F","F","5","7","3","3">>, <<"#","F","0","0">>,
      <<"#","G","G","0","0","0","0">>, << >> }
PickerValues == { <<"#","f","f","5","7","3","3">> }

----------------------------------------------------------------------------
(* App: state and handlers *)

NoCall == [fn |-> "none"]
NoLabs == << >>
NoRun == [outcome |-> "none"]
EmptyResults == [kind |-> "empty"]
EmptyStorage == [k \in {} |-> << >>]

ProbeIdle ==
    /\ hex = << >>
    /\ rgbIn = <<0, 0, 0>>
    /\ dE = 0
    /\ labPair = NoLabs
    /\ ret = NoCall

\* the object response.json() makes of the answer to the given request
DataObject(request) == [request |-> request, colors |-> dataFile]

\* a call of PantoneDatabase.load() at one of its two awaits, after its return,
\* after its throw
awaiting(what, request) == [pc |-> what, request |-> request, value |-> null]
resolved(data) == [pc |-> "resolved", request |-> 0, value |-> data]
rejected == [pc |-> "rejected", request |-> 0, value |-> null]

\* the page as loaded: module state initialised, App.init awaiting the
\* database, whose load() awaits the answer to its request
PageLoaded ==
    /\ appState = "loading"
    /\ pantoneColors = << >>
    /\ recentColors = << >>
    /\ hexInput = << >>
    /\ resultsContainer = EmptyResults
    /\ distanceCalls = 0
    /\ colorsData = null
    /\ isLoaded = FALSE
    /\ apiIsLoaded = FALSE
    /\ fetched = 1
    /\ loads = <<awaiting("fetch", 1)>>

AppIdle ==
    /\ dataFile = << >>
    /\ PageLoaded
    /\ localStorage = EmptyStorage
    /\ testRun = NoRun

showError(message) == [kind |-> "error", message |-> message]

\* displayResults(inputHex, matches): the input colour and one card per match
displayResults(inputHex, matches) ==
    [ kind |-> "results",
      inputHex |-> inputHex,
      inputRgb |-> hexToRgb(inputHex),
      matches |-> matches,
      ratings |-> [i \in 1..Len(matches) |-> getDeltaEInterpretation(matches[i].deltaE).rating] ]

Init ==
    /\ ProbeIdle
    /\ dataFile \in Palettes
    /\ PageLoaded
    /\ localStorage = EmptyStorage
    /\ testRun = NoRun

\* App.init after PantoneDatabase.load() resolved
InitComplete ==
    /\ appState = "loading"
    /\ pantoneColors' = dataFile
    /\ recentColors' = loadRecentColors(localStorage, recentColors)
    /\ appState' = "ready"
    /\ colorsData' = DataObject(loads[1].request)
    /\ isLoaded' = TRUE
    /\ loads' = [loads EXCEPT ![1] = resolved(DataObject(loads[1].request))]
    /\ UNCHANGED <<dataFile, hexInput, resultsContainer, localStorage, distanceCalls,
                   testRun, apiIsLoaded, fetched>>
    /\ UNCHANGED probeVars

\* App.init after PantoneDatabase.load() rejected
InitFailed ==
    /\ appState = "loading"
    /\ appState' = "failed"
    /\ resultsContainer' = showError("Failed to load Pantone database. Please refresh the page.")
    /\ loads' = [loads EXCEPT ![1] = rejected]
    /\ UNCHANGED <<dataFile, pantoneColors, recentColors, hexInput, localStorage,
                   distanceCalls, testRun, colorsData, isLoaded, apiIsLoaded, fetched>>
    /\ UNCHANGED probeVars

\* the user reloads the page: localStorage survives, everything else restarts
Reload ==
    /\ appState # "loading"
    /\ appState' = "loading"
    /\ pantoneColors' = << >>
    /\ recentColors' = << >>
    /\ hexInput' = << >>
    /\ resultsContainer' = EmptyResults
    /\ distanceCalls' = 0
    /\ colorsData' = null
    /\ isLoaded' = FALSE
    /\ apiIsLoaded' = FALSE
    /\ fetched' = 1
    /\ loads' = <<awaiting("fetch", 1)>>
    /\ UNCHANGED <<dataFile, localStorage, testRun>>
    /\ UNCHANGED probeVars

\* (the value of #colorPicker and the 'invalid' class of #hexInput, which the
\* handlers below also set, are read by no other code and are left out)
handleHexInput(typed) ==
    /\ appState = "ready"
    /\ hexInput' = IF typed # << >> /\ typed[1] # "#" THEN <<"#">> \o typed ELSE typed
    /\ UNCHANGED <<dataFile, appState, pantoneColors, recentColors, resultsContainer,
                   localStorage, distanceCalls, testRun>>
    /\ UNCHANGED probeVars
    /\ UNCHANGED dbVars

handleColorPickerChange(picked) ==
    /\ appState = "ready"
    /\ hexInput' = picked
    /\ UNCHANGED <<dataFile, appState, pantoneColors, recentColors, resultsContainer,
                   localStorage, distanceCalls, testRun>>
    /\ UNCHANGED probeVars
    /\ UNCHANGED dbVars

clearInput ==
    /\ appState = "ready"
    /\ hexInput' = << >>
    /\ resultsContainer' = EmptyResults
    /\ UNCHANGED <<dataFile, appState, pantoneColors, recentColors, localStorage,
                   distanceCalls, testRun>>
    /\ UNCHANGED probeVars
    /\ UNCHANGED dbVars

\* variant: the colour recorded as recent before it is validated
findMatchesOn_recordFirst(hexValue) ==
    LET recent == addToRecent(recentColors, hexValue)
    IN  IF ~isValidHex(hexValue)
        THEN /\ recentColors' = recent
             /\ localStorage' = setItem(localStorage, "recentColors", JSONstringify(recent))
             /\ resultsContainer' = showError("Please enter a valid hex color code (e.g., #FF0000)")
             /\ distanceCalls' = 0
             /\ UNCHANGED pantoneColors
        ELSE LET inputLab == hexToLab(hexValue)
             IN  /\ recentColors' = recent
                 /\ localStorage' = setItem(localStorage, "recentColors", JSONstringify(recent))
                 /\ pantoneColors' = collectionAfterMatch(inputLab, pantoneColors)
                 /\ distanceCalls' = Len(pantoneColors)
                 /\ resultsContainer' =
                        displayResults(hexValue, closestMatches(inputLab, pantoneColors))

\* the body of App.findMatches once hexValue has been read from #hexInput
findMatchesOn(hexValue) ==
    IF ~isValidHex(hexValue)
    THEN /\ resultsContainer' = showError("Please enter a valid hex color code (e.g., #FF0000)")
         /\ distanceCalls' = 0
         /\ UNCHANGED <<pantoneColors, recentColors, localStorage>>
    ELSE LET inputLab == hexToLab(hexValue)
         IN  IF inputLab = null
             THEN /\ resultsContainer' = showError("Invalid color format")
                  /\ distanceCalls' = 0
                  /\ UNCHANGED <<pantoneColors, recentColors, localStorage>>
             ELSE LET matches == closestMatches(inputLab, pantoneColors)
                      recent  == addToRecent(recentColors, hexValue)
                  IN  /\ pantoneColors' = collectionAfterMatch(inputLab, pantoneColors)
                      /\ distanceCalls' = Len(pantoneColors)
                      /\ recentColors' = recent
                      /\ localStorage' = setItem(localStorage, "recentColors", JSONstringify(recent))
                      /\ resultsContainer' = displayResults(hexValue, matches)

findMatches ==
    /\ appState = "ready"
    /\ findMatchesOn(hexInput)
    /\ UNCHANGED <<dataFile, appState, hexInput, testRun>>
    /\ UNCHANGED probeVars
    /\ UNCHANGED dbVars

\* App.loadColor, called from a click on an entry of the recent-colours list
loadColor(h) ==
    /\ appState = "ready"
    /\ hexInput' = h
    /\ findMatchesOn(h)
    /\ UNCHANGED <<dataFile, appState, testRun>>
    /\ UNCHANGED probeVars
    /\ UNCHANGED dbVars

\* the matching test script, run on the data file
test1Lab == hexToLab(<<"#","5","F","3","E","F","F">>)
test2Lab == hexToLab(<<"#","E","3","0","0","F","F">>)

runTest ==
    LET test1Matches == testMatches(test1Lab, dataFile)
        test2Matches == testMatches(test2Lab, dataFile)
    IN  /\ testRun = NoRun
        /\ testRun' =
             IF test1Matches = << >>
             THEN [ outcome |-> "TypeError", test1Matches |-> test1Matches,
                    test2Matches |-> test2Matches ]
             ELSE [ outcome |-> IF /\ test1Matches[1].name = <<"PANTONE", 2097, "C">>
                                   /\ test2Matches[1].name = <<"PANTONE", 2395, "C">>
                                THEN "passed" ELSE "failed",
                    test1Matches |-> test1Matches, test2Matches |-> test2Matches ]
        /\ UNCHANGED <<dataFile, appState, pantoneColors, recentColors, hexInput,
                       resultsContainer, localStorage, distanceCalls>>
        /\ UNCHANGED probeVars
        /\ UNCHANGED dbVars

Next ==
    \/ InitComplete
    \/ InitFailed
    \/ Reload
    \/ \E typed \in TypedValues : handleHexInput(typed)
    \/ \E picked \in PickerValues : handleColorPickerChange(picked)
    \/ clearInput
    \/ findMatches
    \/ \E i \in 1..Len(recentColors) : loadColor(recentColors[i])
    \/ runTest

Spec == Init /\ [][Next]_vars

----------------------------------------------------------------------------
(* App: a long session of queries, for the recent-colours list *)

\* colours in the swatch book the user works through: more than the
\* recent-colours list holds
MaxSwatches == 12

\* the i-th colour of the book as the user types it, in lower case and
\* without '#'
BookColour(i) ==
    <<"0","0","0","0">> \o (IF i < 16 THEN <<"0">> ELSE << >>) \o toString16(i)

\* the same colour typed in upper case
BookColourUpper(i) == [k \in 1..6 |-> toUpperCase(BookColour(i)[k])]

\* the place in the book of an entry of the recent-colours list
BookIndex(h) == parseInt16(substring(h, 5, 7))

\* the colour after the one queried last, the first colour after the last
NextInBook(list) ==
    IF list = << >> THEN 1 ELSE (BookIndex(list[1]) % MaxSwatches) + 1

\* the list holds consecutive colours of the book, the latest first
InBookOrder(list) ==
    \A j \in 1..(Len(list) - 1) :
        BookIndex(list[j]) = (BookIndex(list[j + 1]) % MaxSwatches) + 1

\* the page is loaded with a palette of one colour and an empty history
InitRecent ==
    /\ ProbeIdle
    /\ dataFile = Collection(<<1>>)
    /\ PageLoaded
    /\ localStorage = EmptyStorage
    /\ testRun = NoRun

\* the user types the next colour of the book, in either case
TypeNextColour ==
    \E typed \in { BookColour(NextInBook(recentColors)),
                   BookColourUpper(NextInBook(recentColors)) } :
        handleHexInput(typed)

\* the user clicks an entry of the recent-colours list, when the list is in
\* the order of the book
ClickRecent ==
    /\ InBookOrder(recentColors)
    /\ \E i \in 1..Len(recentColors) : loadColor(recentColors[i])

NextRecent ==
    \/ InitComplete
    \/ TypeNextColour
    \/ findMatches
    \/ ClickRecent

SpecRecent == InitRecent /\ [][NextRecent]_vars

----------------------------------------------------------------------------
(* PantoneDatabase: load() called by App.init and by other scripts *)

\* calls of PantoneDatabase.load() on one page, that of App.init included
MaxLoads == 4

\* the page is loaded with a palette of one colour
InitLoad ==
    /\ ProbeIdle
    /\ dataFile = Collection(<<1>>)
    /\ PageLoaded
    /\ localStorage = EmptyStorage
    /\ testRun = NoRun

\* a script calls PantoneDatabase.load(): the call returns colorsData when
\* isLoaded is set, and otherwise requests the file and awaits the answer
load ==
    /\ Len(loads) < MaxLoads
    /\ IF isLoaded
       THEN /\ loads' = Append(loads, resolved(colorsData))
            /\ UNCHANGED fetched
       ELSE /\ fetched' = fetched + 1
            /\ loads' = Append(loads, awaiting("fetch", fetched + 1))
    /\ UNCHANGED <<colorsData, isLoaded, apiIsLoaded>>
    /\ UNCHANGED appVars
    /\ UNCHANGED probeVars

\* the answer to the request of call i arrives with response.ok set: the call
\* awaits response.json()
loadAfterFetch(i) ==
    /\ loads[i].pc = "fetch"
    /\ loads' = [loads EXCEPT ![i] = awaiting("json", loads[i].request)]
    /\ UNCHANGED <<colorsData, isLoaded, apiIsLoaded, fetched>>
    /\ UNCHANGED appVars
    /\ UNCHANGED probeVars

\* response.json() of call i is done: the call stores the object, sets
\* isLoaded and returns the object
loadAfterJson(i) ==
    /\ loads[i].pc = "json"
    /\ colorsData' = DataObject(loads[i].request)
    /\ isLoaded' = TRUE
    /\ loads' = [loads EXCEPT ![i] = resolved(DataObject(loads[i].request))]
    /\ UNCHANGED <<apiIsLoaded, fetched>>
    /\ UNCHANGED appVars
    /\ UNCHANGED probeVars

\* the request of call i fails, or its answer is not ok or cannot be parsed:
\* the call throws
loadThrows(i) ==
    /\ loads[i].pc \in {"fetch", "json"}
    /\ loads' = [loads EXCEPT ![i] = rejected]
    /\ UNCHANGED <<colorsData, isLoaded, apiIsLoaded, fetched>>
    /\ UNCHANGED appVars
    /\ UNCHANGED probeVars

\* the first call is that of App.init, which goes on in InitComplete or
\* InitFailed; the others are those of other scripts
NextLoad ==
    \/ InitComplete
    \/ InitFailed
    \/ load
    \/ \E i \in 2..Len(loads) : loadAfterFetch(i)
    \/ \E i \in 2..Len(loads) : loadAfterJson(i)
    \/ \E i \in 2..Len(loads) : loadThrows(i)

SpecLoad == InitLoad /\ [][NextLoad]_vars

----------------------------------------------------------------------------
(* Evaluation of the pure functions on drawn arguments *)

InitHex ==
    /\ hex \in HexInputs
    /\ rgbIn = <<0, 0, 0>>
    /\ dE = 0
    /\ labPair = NoLabs
    /\ ret = NoCall
    /\ AppIdle

CallIsValidHex ==
    /\ ret = NoCall
    /\ ret' = [fn |-> "isValidHex", val |-> isValidHex(hex)]
    /\ UNCHANGED probeArgs
    /\ UNCHANGED appVars
    /\ UNCHANGED dbVars

CallHexToRgb ==
    /\ ret = NoCall
    /\ ret' = [fn |-> "hexToRgb", val |-> hexToRgb(hex)]
    /\ UNCHANGED probeArgs
    /\ UNCHANGED appVars
    /\ UNCHANGED dbVars

\* rgbToHex(rgb.r, rgb.g, rgb.b) on the value hexToRgb returned
CallRgbToHexOnResult ==
    /\ ret.fn = "hexToRgb"
    /\ ret.val # null
    /\ ret' = [fn |-> "rgbToHex(hexToRgb)",
               val |-> rgbToHex(10 * ret.val.r, 10 * ret.val.g, 10 * ret.val.b)]
    /\ UNCHANGED probeArgs
    /\ UNCHANGED appVars
    /\ UNCHANGED dbVars

CallHexToLab ==
    /\ ret = NoCall
    /\ ret' = [fn |-> "hexToLab", val |-> hexToLab(hex), calls |-> hexToLabCalls(hex)]
    /\ UNCHANGED probeArgs
    /\ UNCHANGED appVars
    /\ UNCHANGED dbVars

NextHex == CallIsValidHex \/ CallHexToRgb \/ CallRgbToHexOnResult \/ CallHexToLab

SpecHex == InitHex /\ [][NextHex]_vars

InitRgb ==
    /\ hex = << >>
    /\ rgbIn \in ChannelSamples \X ChannelSamples \X ChannelSamples
    /\ dE = 0
    /\ labPair = NoLabs
    /\ ret = NoCall
    /\ AppIdle

CallRgbToHex ==
    /\ ret = NoCall
    /\ ret' = [fn |-> "rgbToHex", val |-> rgbToHex(rgbIn[1], rgbIn[2], rgbIn[3])]
    /\ UNCHANGED probeArgs
    /\ UNCHANGED appVars
    /\ UNCHANGED dbVars

NextRgb == CallRgbToHex

SpecRgb == InitRgb /\ [][NextRgb]_vars

\* Math.round of the quotient n / d, for n >= 0 and d > 0
roundQuotient(n, d) == (2 * n + d) \div (2 * d)

\* rgbToHsl on channels in tenths: every value the code rounds is a quotient
\* of two of the numbers below, which the division of r, g, b by 255 leaves
\* as it is. A quotient exactly halfway between two integers is rounded up;
\* the floating-point quotient can fall just below the half.
rgbToHsl(r, g, b) ==
    LET max == Max(r, Max(g, b))
        min == Min(r, Min(g, b))
        d == max - min
        sixths == IF max = r THEN (g - b) + (IF g < b THEN 6 * d ELSE 0)
                  ELSE IF max = g THEN (b - r) + 2 * d
                  ELSE (r - g) + 4 * d
    IN  [ h |-> IF max = min THEN 0 ELSE roundQuotient(60 * sixths, d),
          s |-> IF max = min THEN 0
                ELSE IF max + min > 2550
                     THEN roundQuotient(100 * d, 2 * 2550 - max - min)
                     ELSE roundQuotient(100 * d, max + min),
          l |-> roundQuotient(100 * (max + min), 2 * 2550) ]

InitHsl ==
    /\ hex = << >>
    /\ rgbIn \in HslChannels \X HslChannels \X HslChannels
    /\ dE = 0
    /\ labPair = NoLabs
    /\ ret = NoCall
    /\ AppIdle

CallRgbToHsl ==
    /\ ret = NoCall
    /\ ret' = [fn |-> "rgbToHsl", val |-> rgbToHsl(rgbIn[1], rgbIn[2], rgbIn[3])]
    /\ UNCHANGED probeArgs
    /\ UNCHANGED appVars
    /\ UNCHANGED dbVars

NextHsl == CallRgbToHsl

SpecHsl == InitHsl /\ [][NextHsl]_vars

InitDeltaE ==
    /\ hex = << >>
    /\ rgbIn = <<0, 0, 0>>
    /\ dE \in 0..MaxDeltaE
    /\ labPair = NoLabs
    /\ ret = NoCall
    /\ AppIdle

CallGetDeltaEInterpretation ==
    /\ ret = NoCall
    /\ ret' = [fn |-> "getDeltaEInterpretation", val |-> getDeltaEInterpretation(dE)]
    /\ UNCHANGED probeArgs
    /\ UNCHANGED appVars
    /\ UNCHANGED dbVars

NextDeltaE == CallGetDeltaEInterpretation

SpecDeltaE == InitDeltaE /\ [][NextDeltaE]_vars

InitLab ==
    /\ hex = << >>
    /\ rgbIn = <<0, 0, 0>>
    /\ dE = 0
    /\ labPair \in LabSamples \X LabSamples
    /\ ret = NoCall
    /\ AppIdle

CallDeltaE76 ==
    /\ ret = NoCall
    /\ ret' = [fn |-> "deltaE76", val |-> deltaE76(labPair[1], labPair[2])]
    /\ UNCHANGED probeArgs
    /\ UNCHANGED appVars
    /\ UNCHANGED dbVars

CallDeltaE2000 ==
    /\ ret = NoCall
    /\ ret' = [fn |-> "deltaE2000", val |-> deltaE2000(labPair[1], labPair[2]),
               terms |-> deltaE2000Terms(labPair[1], labPair[2])]
    /\ UNCHANGED probeArgs
    /\ UNCHANGED appVars
    /\ UNCHANGED dbVars

NextLab == CallDeltaE76 \/ CallDeltaE2000

SpecLab == InitLab /\ [][NextLab]_vars

----------------------------------------------------------------------------
(* Vocabulary of the properties, stated without the functions above *)

HexUpper == <<"0","1","2","3","4","5","6","7","8","9","A","B","C","D","E","F">>
HexLower == <<"0","1","2","3","4","5","6","7","8","9","a","b","c","d","e","f">>
HexDigitChars == { HexUpper[i] : i \in 1..16 } \cup { HexLower[i] : i \in 1..16 }

\* base-16 value of a hex digit
HexValue(c) == CHOOSE v \in 0..15 : HexUpper[v + 1] = c \/ HexLower[v + 1] = c

\* the string after removing at most one leading '#'
Body(h) == IF Len(h) > 0 /\ Head(h) = "#" THEN Tail(h) ELSE h

HexDigitsOnly(s) == \A i \in 1..Len(s) : s[i] \in HexDigitChars
MatchesPattern(h) == Len(Body(h)) \in {3, 6} /\ HexDigitsOnly(Body(h))
SixDigit(h) == Len(Body(h)) = 6 /\ HexDigitsOnly(Body(h))
ThreeDigit(h) == Len(Body(h)) = 3 /\ HexDigitsOnly(Body(h))

RGBValues == [r : 0..255, g : 0..255, b : 0..255]

\* value of the two hex digits at positions i and i + 1 of s
PairValue(s, i) == 16 * HexValue(s[i]) + HexValue(s[i + 1])

\* '#' followed by the six digits of h in lower case
Normalize(h) == <<"#">> \o [i \in 1..6 |-> HexLower[HexValue(Body(h)[i]) + 1]]

SortedByDeltaE(rows) == \A i \in 1..(Len(rows) - 1) : rows[i].deltaE <= rows[i + 1].deltaE

\* the fields of an entry of the reference collection
EntryFields == {"name", "code", "rgb", "hex", "lab"}

\* position in the collection of the entry a result was made from (entry i
\* of a collection is named <<"PANTONE", i, "C">>)
OriginalIndex(row) == row.name[2]

Least(x, y) == IF x < y THEN x ELSE y

\* a step in which App.findMatches runs, from the button or from loadColor
MatchStep ==
    /\ appState = "ready"
    /\ resultsContainer'.kind # "empty"
    /\ findMatches \/ \E i \in 1..Len(recentColors) : loadColor(recentColors[i])

----------------------------------------------------------------------------
(* Properties *)

\* C1: isValidHex(h) is true exactly when h, after removing at most one
\* leading '#', consists of exactly 3 or exactly 6 hexadecimal digits of
\* either case; any other length or any other character gives false.
C1_IsValidHexIffPattern ==
    ret.fn = "isValidHex" => (ret.val <=> MatchesPattern(hex))

\* '#' and a three-digit shorthand of mixed case is accepted
C1_Witness ==
    /\ ret.fn = "isValidHex"
    /\ hex = <<"#","5","a","F">>
    /\ ret.val = TRUE

\* C2: for every string that does not match the pattern, hexToRgb returns
\* null; null is not an RGB result, and every matching string gives an RGB
\* result.
C2_InvalidGivesNull ==
    ret.fn = "hexToRgb" =>
        /\ ~MatchesPattern(hex) => ret.val = null
        /\ null \notin RGBValues
        /\ MatchesPattern(hex) => ret.val \in RGBValues

\* six characters, one of them not a hex digit, give null
C2_Witness ==
    /\ ret.fn = "hexToRgb"
    /\ Len(hex) = 6
    /\ ~HexDigitsOnly(hex)
    /\ ret.val = null

\* C3: for every valid 6-digit hex string, with or without '#', in any
\* case, hexToRgb returns r, g, b equal to the base-16 values of the first,
\* second and third digit pair, each in 0..255; "#FF5733" gives 255, 87, 51.
C3_PairsParsedBase16 ==
    ret.fn = "hexToRgb" /\ SixDigit(hex) =>
        /\ ret.val = [ r |-> PairValue(Body(hex), 1),
                       g |-> PairValue(Body(hex), 3),
                       b |-> PairValue(Body(hex), 5) ]
        /\ ret.val \in RGBValues
        /\ hex = <<"#","F","F","5","7","3","3">> => ret.val = [r |-> 255, g |-> 87, b |-> 51]

C3_Witness ==
    /\ ret.fn = "hexToRgb"
    /\ hex = <<"#","F","F","5","7","3","3">>
    /\ ret.val = [r |-> 255, g |-> 87, b |-> 51]

\* C4: for every 3-hex-digit string xyz, with or without '#', hexToRgb(xyz)
\* is the RGB of the 6-digit string xxyyzz: each digit is duplicated.
C4_ShorthandExpands ==
    ret.fn = "hexToRgb" /\ ThreeDigit(hex) =>
        LET x == Body(hex)[1]
            y == Body(hex)[2]
            z == Body(hex)[3]
        IN  /\ ret.val = hexToRgb(<<x, x, y, y, z, z>>)
            /\ ret.val = hexToRgb(<<"#", x, x, y, y, z, z>>)
            /\ ret.val = [r |-> 17 * HexValue(x), g |-> 17 * HexValue(y), b |-> 17 * HexValue(z)]

C4_Witness ==
    /\ ret.fn = "hexToRgb"
    /\ hex = <<"#","B","c","1">>
    /\ ret.val = [r |-> 187, g |-> 204, b |-> 17]

\* C5: for every valid 6-digit hex string h, rgbToHex applied to the
\* channels of hexToRgb(h) is '#' followed by the six digits of h in lower
\* case.
C5_RoundTrip ==
    ret.fn = "rgbToHex(hexToRgb)" /\ SixDigit(hex) => ret.val = Normalize(hex)

\* an upper-case input without '#' comes back prefixed and in lower case
C5_Witness ==
    /\ ret.fn = "rgbToHex(hexToRgb)"
    /\ hex = <<"F","F","0","0","0","0">>
    /\ ret.val = <<"#","f","f","0","0","0","0">>

\* C6: for all channel values, also below 0 and above 255, rgbToHex returns
\* '#' and six hex digits; each pair of digits encodes the channel's value
\* clamped to 0..255 and rounded to a nearest integer, never the value
\* modulo 256.
C6_ClampRoundPad ==
    ret.fn = "rgbToHex" =>
        /\ Len(ret.val) = 7
        /\ ret.val[1] = "#"
        /\ \A k \in 1..3 :
             /\ ret.val[2 * k] \in HexDigitChars
             /\ ret.val[2 * k + 1] \in HexDigitChars
             /\ LET n == PairValue(ret.val, 2 * k)
                    v == rgbIn[k]
                IN  IF v <= 0 THEN n = 0
                    ELSE IF v >= 2550 THEN n = 255
                    ELSE 10 * n - v <= 5 /\ v - 10 * n <= 5

\* 256.0 is clamped to ff, -1.0 to 00, and 15.5 is rounded to 10
C6_Witness ==
    /\ ret.fn = "rgbToHex"
    /\ rgbIn = <<2560, -10, 155>>
    /\ ret.val = <<"#","f","f","0","0","1","0">>

\* C7: hexToLab(h) is null exactly when hexToRgb(h) is null, and otherwise
\* is rgbToLab of the channels of hexToRgb(h); rgbToLab is not called when
\* hexToRgb(h) is null.
C7_HexToLabPropagates ==
    ret.fn = "hexToLab" =>
        LET rgb == hexToRgb(hex)
        IN  /\ ret.val = null <=> rgb = null
            /\ rgb # null => ret.val = rgbToLab(rgb.r, rgb.g, rgb.b)
            /\ rgb = null => \A i \in 1..Len(ret.calls) : ret.calls[i] # "rgbToLab"

C7_Witness ==
    /\ ret.fn = "hexToLab"
    /\ hex = <<"G","G","0","0","0","0">>
    /\ ret.val = null
    /\ ret.calls = <<"hexToRgb">>

\* C8: getDeltaEInterpretation gives every distance exactly one tier:
\* Perfect below 1.0, Excellent from 1.0 and below 2.0, Good from 2.0 and
\* below 10.0, Fair from 10.0 and below 50.0, Poor from 50.0.
C8_TierByThreshold ==
    ret.fn = "getDeltaEInterpretation" =>
        /\ ret.val.rating \in {"Perfect", "Excellent", "Good", "Fair", "Poor"}
        /\ ret.val.rating = "Perfect" <=> dE \in 0..99
        /\ ret.val.rating = "Excellent" <=> dE \in 100..199
        /\ ret.val.rating = "Good" <=> dE \in 200..999
        /\ ret.val.rating = "Fair" <=> dE \in 1000..4999
        /\ ret.val.rating = "Poor" <=> dE >= 5000

\* the boundary 50.0 is Poor
C8_Witness ==
    /\ ret.fn = "getDeltaEInterpretation"
    /\ dE = 5000
    /\ ret.val.rating = "Poor"

\* C9: the results of a match are in ascending order of distance, in the
\* application and in the test script.
C9_MatchesSorted ==
    /\ resultsContainer.kind = "results" => SortedByDeltaE(resultsContainer.matches)
    /\ testRun.outcome # "none" =>
         SortedByDeltaE(testRun.test1Matches) /\ SortedByDeltaE(testRun.test2Matches)

\* three results of increasing distance whose first is not the first entry
\* of the collection
C9_Witness ==
    /\ resultsContainer.kind = "results"
    /\ Len(resultsContainer.matches) >= 3
    /\ resultsContainer.matches[1].deltaE < resultsContainer.matches[3].deltaE
    /\ resultsContainer.matches[1].name # pantoneColors[1].name

\* C10: the first result of a match is an entry of the collection at the
\* least distance over the whole collection; when the query's Lab is the
\* Lab of some entry, the first result has distance 0 and that Lab.
C10_FirstIsNearest ==
    /\ resultsContainer.kind = "results" /\ Len(pantoneColors) > 0 =>
         LET q == hexToLab(resultsContainer.inputHex)
             first == resultsContainer.matches[1]
         IN  /\ \A i \in 1..Len(pantoneColors) :
                    first.deltaE <= deltaE76(q, pantoneColors[i].lab)
             /\ \E i \in 1..Len(pantoneColors) :
                    /\ pantoneColors[i].name = first.name
                    /\ pantoneColors[i].lab = first.lab
                    /\ deltaE76(q, pantoneColors[i].lab) = first.deltaE
             /\ (\E i \in 1..Len(pantoneColors) : pantoneColors[i].lab = q) =>
                    first.deltaE = 0 /\ first.lab = q
    /\ testRun.outcome \in {"passed", "failed"} =>
         \A i \in 1..Len(dataFile) :
            /\ testRun.test1Matches[1].deltaE <= deltaE76(test1Lab, dataFile[i].lab)
            /\ testRun.test2Matches[1].deltaE <= deltaE76(test2Lab, dataFile[i].lab)

\* a collection longer than MAX_RESULTS whose only exact match is its last
\* entry
C10_Witness ==
    /\ resultsContainer.kind = "results"
    /\ Len(pantoneColors) > MAX_RESULTS
    /\ resultsContainer.matches[1].deltaE = 0
    /\ resultsContainer.matches[1].name = pantoneColors[Len(pantoneColors)].name
    /\ \A i \in 1..(Len(pantoneColors) - 1) :
          pantoneColors[i].lab # pantoneColors[Len(pantoneColors)].lab

\* C11: a match returns min(k, n) results for a collection of n entries and
\* the limit k (MAX_RESULTS in the application, 5 in the test script); an
\* empty collection gives no result and a collection shorter than the limit
\* gives all its entries.
C11_MinOfLimitAndSize ==
    /\ resultsContainer.kind = "results" =>
         /\ Len(resultsContainer.matches) = Least(MAX_RESULTS, Len(pantoneColors))
         /\ Len(resultsContainer.ratings) = Len(resultsContainer.matches)
    /\ testRun.outcome # "none" =>
         /\ Len(testRun.test1Matches) = Least(5, Len(dataFile))
         /\ Len(testRun.test2Matches) = Least(5, Len(dataFile))

\* a collection longer than the limit gave exactly MAX_RESULTS results
C11_Witness ==
    /\ resultsContainer.kind = "results"
    /\ Len(pantoneColors) > MAX_RESULTS
    /\ Len(resultsContainer.matches) = MAX_RESULTS

\* C12: a match leaves the reference collection as it was loaded (the same
\* records in the same order with the same fields), and every result is a new
\* record: the fields of an entry and the added deltaE and match.
C12_CollectionUntouched ==
    /\ appState = "ready" => pantoneColors = dataFile
    /\ \A j \in 1..Len(pantoneColors) : DOMAIN pantoneColors[j] = EntryFields
    /\ resultsContainer.kind = "results" =>
         \A i \in 1..Len(resultsContainer.matches) :
            LET m == resultsContainer.matches[i]
            IN  /\ DOMAIN m = EntryFields \cup {"deltaE", "match"}
                /\ OriginalIndex(m) \in 1..Len(pantoneColors)
                /\ \A f \in EntryFields : m[f] = pantoneColors[OriginalIndex(m)][f]

\* after two queries, the second of which put another entry than the first
\* of the collection in front
C12_Witness ==
    /\ resultsContainer.kind = "results"
    /\ Len(recentColors) >= 2
    /\ Len(pantoneColors) >= 2
    /\ pantoneColors = dataFile
    /\ resultsContainer.matches[1].name # pantoneColors[1].name

\* C13: results at equal distance are in the order of the collection, and
\* when the limit cuts between entries at equal distance the ones kept are
\* the ones that come first in the collection.
C13_TiesInCollectionOrder ==
    resultsContainer.kind = "results" =>
        LET ms == resultsContainer.matches
            q == hexToLab(resultsContainer.inputHex)
            kept == { OriginalIndex(ms[i]) : i \in 1..Len(ms) }
        IN  /\ \A i, j \in 1..Len(ms) :
                   i < j /\ ms[i].deltaE = ms[j].deltaE
                       => OriginalIndex(ms[i]) < OriginalIndex(ms[j])
            /\ \A c \in (1..Len(pantoneColors)) \ kept :
                   \A i \in 1..Len(ms) :
                       ms[i].deltaE = deltaE76(q, pantoneColors[c].lab)
                           => OriginalIndex(ms[i]) < c

\* the limit cut between two entries at the same distance, and two results
\* are at the same distance
C13_Witness ==
    /\ resultsContainer.kind = "results"
    /\ Len(pantoneColors) > MAX_RESULTS
    /\ resultsContainer.matches[MAX_RESULTS].deltaE =
          resultsContainer.matches[MAX_RESULTS - 1].deltaE
    /\ \E c \in 1..Len(pantoneColors) :
          /\ \A i \in 1..MAX_RESULTS : OriginalIndex(resultsContainer.matches[i]) # c
          /\ deltaE76(hexToLab(resultsContainer.inputHex), pantoneColors[c].lab)
                = resultsContainer.matches[MAX_RESULTS].deltaE

\* C14: when the input does not pass isValidHex, App.findMatches shows an
\* error within the same step, computes no distance, and leaves the
\* recent-colours list and its stored copy as they were.
C14_InvalidRejected ==
    [][ (MatchStep /\ ~MatchesPattern(hexInput'))
          => /\ resultsContainer'.kind = "error"
             /\ distanceCalls' = 0
             /\ recentColors' = recentColors
             /\ localStorage' = localStorage ]_vars

\* an invalid input was rejected while the list and the store held a colour
C14_Witness ==
    /\ resultsContainer = showError("Please enter a valid hex color code (e.g., #FF0000)")
    /\ hexInput = <<"#","G","G","0","0","0","0">>
    /\ distanceCalls = 0
    /\ pantoneColors # << >>
    /\ recentColors # << >>
    /\ "recentColors" \in DOMAIN localStorage

\* C20: when App.findMatches has run on a valid hex input, that string is the
\* first element of the recent-colours list, and the item 'recentColors' of
\* localStorage is the JSON text of that list.
C20_RecentFirstAndStored ==
    [][ (MatchStep /\ MatchesPattern(hexInput'))
          => /\ recentColors' # << >>
             /\ recentColors'[1] = hexInput'
             /\ "recentColors" \in DOMAIN localStorage'
             /\ localStorage'["recentColors"] = JSONstringify(recentColors')
             /\ JSONparse(localStorage'["recentColors"]) = recentColors' ]_vars

\* a second colour was matched: it is in front of the first one, in the list
\* and in the stored text
C20_Witness ==
    /\ resultsContainer.kind = "results"
    /\ resultsContainer.inputHex = hexInput
    /\ Len(recentColors) >= 2
    /\ recentColors[1] = hexInput
    /\ "recentColors" \in DOMAIN localStorage
    /\ JSONparse(localStorage["recentColors"]) = recentColors

\* C15: deltaE76(x, y) is 0 exactly when x and y have the same L, the same a
\* and the same b; in particular deltaE76(x, x) is 0.
C15_ZeroIffIdentical ==
    ret.fn = "deltaE76" =>
        LET x == labPair[1]
            y == labPair[2]
        IN  /\ ret.val = 0 <=> (x.L = y.L /\ x.a = y.a /\ x.b = y.b)
            /\ ret.val >= 0

\* two triples that differ by one hundredth in b alone are not at distance 0
C15_Witness ==
    /\ ret.fn = "deltaE76"
    /\ labPair[1].L = labPair[2].L
    /\ labPair[1].a = labPair[2].a
    /\ labPair[1].b = labPair[2].b - 1
    /\ ret.val > 0

\* C16: deltaE76(x, y) = deltaE76(y, x).
C16_DeltaE76Symmetric ==
    ret.fn = "deltaE76" => ret.val = deltaE76(labPair[2], labPair[1])

\* the distance between two triples that differ in all three components
C16_Witness ==
    /\ ret.fn = "deltaE76"
    /\ labPair[1].L < labPair[2].L
    /\ labPair[1].a > labPair[2].a
    /\ labPair[1].b < labPair[2].b
    /\ ret.val > 0

\* C17: deltaE2000(x, x) = 0 for every Lab triple x, of chroma 0 or not: the
\* lightness, chroma and hue differences are 0 and so is every term under
\* the final square root.
C17_DeltaE2000OfSameIsZero ==
    (ret.fn = "deltaE2000" /\ labPair[1] = labPair[2]) =>
        /\ ret.val = 0
        /\ ret.terms.deltaLprime = 0
        /\ ret.terms.deltaCprime = 0
        /\ ret.terms.deltahprime = 0
        /\ ret.terms.deltaHprime = 0
        /\ \A i \in 1..Len(ret.terms.squares) : ret.terms.squares[i] = 0

\* deltaE2000 of a grey (chroma 0) with itself
C17_Witness ==
    /\ ret.fn = "deltaE2000"
    /\ labPair[1] = labPair[2]
    /\ labPair[1].a = 0 /\ labPair[1].b = 0 /\ labPair[1].L > 0
    /\ ret.terms.C1prime = 0
    /\ ret.val = 0

\* C18: deltaE2000(x, y) = deltaE2000(y, x); exchanging the arguments
\* negates the lightness, chroma and hue differences and leaves the mean
\* lightness, mean chroma and mean hue as they are.
C18_DeltaE2000Symmetric ==
    ret.fn = "deltaE2000" =>
        LET swapped == deltaE2000Terms(labPair[2], labPair[1])
        IN  /\ ret.val = deltaE2000(labPair[2], labPair[1])
            /\ swapped.deltaLprime = -ret.terms.deltaLprime
            /\ swapped.deltaCprime = -ret.terms.deltaCprime
            /\ swapped.deltahprime = -ret.terms.deltahprime
            /\ swapped.deltaHprime = -ret.terms.deltaHprime
            /\ swapped.Lbarprime = ret.terms.Lbarprime
            /\ swapped.Cbarprime = ret.terms.Cbarprime
            /\ swapped.Hbarprime = ret.terms.Hbarprime

\* two colours whose hues are more than 180 degrees apart, the first hue the
\* smaller, and whose lightness, chroma and hue all differ
C18_Witness ==
    /\ ret.fn = "deltaE2000"
    /\ ret.terms.h2prime - ret.terms.h1prime > 18000
    /\ ret.terms.deltaLprime # 0
    /\ ret.terms.deltaCprime # 0
    /\ ret.terms.deltaHprime # 0
    /\ ret.val > 0

\* C19: deltaE2000 returns a finite number that is not negative, for every
\* pair of Lab triples and also when both chromas are 0: no divisor is 0 and
\* the sum under the final square root is not negative.
C19_DeltaE2000Finite ==
    ret.fn = "deltaE2000" =>
        /\ ret.val # NaN
        /\ ret.val >= 0
        /\ \A i \in 1..Len(ret.terms.divisors) : ret.terms.divisors[i] > 0
        /\ ret.terms.radicand >= 0

\* two greys of different lightness: both chromas are 0
C19_Witness ==
    /\ ret.fn = "deltaE2000"
    /\ ret.terms.C1 = 0 /\ ret.terms.C2 = 0
    /\ ret.terms.Cbarprime = 0
    /\ ret.terms.deltaLprime # 0
    /\ ret.val > 0

\* C21: in deltaE2000 the hue angles h1', h2' lie in [0, 360); the hue
\* difference is 0 when either adjusted chroma is 0, and otherwise it is
\* h2' - h1', h2' - h1' + 360 or h2' - h1' - 360, whichever lies in
\* [-180, 180], so it is congruent to h2' - h1' modulo 360.
C21_HueDifferenceWrapped ==
    ret.fn = "deltaE2000" =>
        LET t == ret.terms
            d == t.h2prime - t.h1prime
        IN  /\ t.h1prime \in 0..35999
            /\ t.h2prime \in 0..35999
            /\ (t.C1prime = 0 \/ t.C2prime = 0) => t.deltahprime = 0
            /\ (t.C1prime # 0 /\ t.C2prime # 0) =>
                /\ t.deltahprime \in {d, d + 36000, d - 36000}
                /\ t.deltahprime \in -18000..18000
                /\ (t.deltahprime - d) % 36000 = 0

\* two colours of non-zero chroma whose second hue is more than 180 degrees
\* below the first: the difference is h2' - h1' + 360
C21_Witness ==
    /\ ret.fn = "deltaE2000"
    /\ ret.terms.C1prime # 0 /\ ret.terms.C2prime # 0
    /\ ret.terms.h2prime - ret.terms.h1prime < -18000
    /\ ret.terms.deltahprime = ret.terms.h2prime - ret.terms.h1prime + 36000

\* half of a sum of angles, to the nearest hundredth of a degree
HalfAngle(n) == (n + 1) \div 2

\* the length of the shorter arc between two angles of [0, 360)
ArcLength(x, y) == Least((x - y) % 36000, (y - x) % 36000)

\* the statement of C22 about the call recorded in ret, with the mean hue of
\* two colours of non-zero adjusted chroma at most `last`
MeanHueOnShorterArc(last) ==
    ret.fn = "deltaE2000" =>
        LET t == ret.terms
            sum == t.h1prime + t.h2prime
        IN  /\ (t.C1prime = 0 \/ t.C2prime = 0) => t.Hbarprime = sum
            /\ (t.C1prime # 0 /\ t.C2prime # 0) =>
                /\ t.Hbarprime \in 0..last
                /\ t.Hbarprime =
                    IF MathAbs(t.h1prime - t.h2prime) <= 18000
                    THEN HalfAngle(sum)
                    ELSE IF sum < 36000 THEN HalfAngle(sum + 36000)
                    ELSE HalfAngle(sum - 36000)
                /\ ArcLength(t.Hbarprime, t.h1prime)
                     + ArcLength(t.Hbarprime, t.h2prime)
                   = ArcLength(t.h1prime, t.h2prime)
                /\ MathAbs(ArcLength(t.Hbarprime, t.h1prime)
                            - ArcLength(t.Hbarprime, t.h2prime)) <= 1

\* C22 as stated: in deltaE2000, when both adjusted chromas are non-zero the
\* mean hue lies in [0, 360) and on the shorter arc between h1' and h2': it
\* is (h1'+h2')/2 when |h1'-h2'| <= 180, else (h1'+h2'+360)/2 when
\* h1'+h2' < 360, else (h1'+h2'-360)/2; when either adjusted chroma is 0 it
\* is h1'+h2'.
C22_MeanHueBelow360 == MeanHueOnShorterArc(35999)

\* C22: the same with the mean hue in [0, 360]: 360 itself is returned when
\* h1'+h2' is the last representable angle below 360 and the hues are more
\* than 180 degrees apart, because (h1'+h2'+360)/2 then rounds up to 360.
C22_MeanHueOnShorterArc == MeanHueOnShorterArc(36000)

\* hue 0 and the last hue below 360, both of non-zero chroma: the mean hue
\* is 360
C22_Witness ==
    /\ ret.fn = "deltaE2000"
    /\ ret.terms.C1prime # 0 /\ ret.terms.C2prime # 0
    /\ MathAbs(ret.terms.h1prime - ret.terms.h2prime) > 18000
    /\ ret.terms.h1prime + ret.terms.h2prime < 36000
    /\ ret.terms.Hbarprime = 36000

\* C25: isValidHex and hexToRgb agree on every string: isValidHex(h) is true
\* exactly when hexToRgb(h) is not null. A string that passes the isValidHex
\* check of App.findMatches therefore has a Lab value, so the rejection
\* 'Invalid color format' that follows the check cannot happen.
C25_ValidatorsAgree ==
    ret.fn = "isValidHex" =>
        /\ ret.val <=> hexToRgb(hex) # null
        /\ ret.val => hexToLab(hex) # null

\* a three-digit shorthand with '#': accepted by isValidHex and converted by
\* hexToRgb after the digits are doubled
C25_Witness ==
    /\ ret.fn = "isValidHex"
    /\ ret.val = TRUE
    /\ hex[1] = "#"
    /\ Len(hex) = 4
    /\ hexToRgb(hex) \in RGBValues

\* the entries of a list other than h, compared ignoring case, in their order
Others(list, h) == SelectSeq(list, LAMBDA c : lower(c) # lower(h))

\* h is an entry of the list, ignoring case
Listed(list, h) == \E i \in 1..Len(list) : lower(list[i]) = lower(h)

\* at most MAX_RECENT entries, no two equal ignoring case
RecentWellFormed ==
    /\ Len(recentColors) <= MAX_RECENT
    /\ \A i, j \in 1..Len(recentColors) :
         i # j => lower(recentColors[i]) # lower(recentColors[j])

\* a step of App.findMatches that displayed matches
SuccessfulMatch == MatchStep /\ resultsContainer'.kind = "results"

\* C26: starting from an empty history, the recent-colours list always has at
\* most MAX_RECENT (10) entries and no two entries equal ignoring case. Every
\* successful match query puts its colour first and leaves the other entries
\* in the order they had, dropping only the last one when the list would
\* exceed MAX_RECENT, so the list runs from the most recently queried colour
\* to the least recently queried one; a colour already in the list moves to
\* the front and the length stays as it was.
C26_RecentListBoundedAndOrdered ==
    /\ []RecentWellFormed
    /\ [][ SuccessfulMatch =>
             LET h == hexInput'
                 rest == Others(recentColors, h)
             IN  /\ recentColors'[1] = h
                 /\ Tail(recentColors') = SubSeq(rest, 1, Len(recentColors') - 1)
                 /\ Listed(recentColors, h) =>
                      /\ Len(recentColors') = Len(recentColors)
                      /\ Tail(recentColors') = rest
                 /\ ~Listed(recentColors, h) =>
                      Len(recentColors') = Least(Len(recentColors) + 1, MAX_RECENT)
       ]_vars

\* a full list from which the first colour of the book has been dropped, out
\* of the order of the book because an older entry was queried again, in the
\* other case
C26_Witness ==
    /\ Len(recentColors) = MAX_RECENT
    /\ \A i \in 1..MAX_RECENT : BookIndex(recentColors[i]) # 1
    /\ ~InBookOrder(recentColors)
    /\ BookIndex(recentColors[1]) = 11
    /\ recentColors[1] = <<"#">> \o BookColourUpper(11)
    /\ resultsContainer.kind = "results"

\* C27: for all integer r, g, b in [0, 255], rgbToHsl returns integers with
\* hue h in [0, 360) degrees and saturation s and lightness l in [0, 100]; the
\* rounded hue never reaches 360.
C27_HslInRange ==
    ret.fn = "rgbToHsl" =>
        /\ ret.val.h \in 0..359
        /\ ret.val.s \in 0..100
        /\ ret.val.l \in 0..100

\* no call of load() has thrown
NoLoadFailed == \A i \in 1..Len(loads) : loads[i].pc # "rejected"

\* C23: the reference palette is loaded once: over any sequence of
\* PantoneDatabase.load() calls in which fetches succeed, including calls
\* made while an earlier load is still awaiting its fetch, the palette file
\* is fetched at most once and every call resolves to the same data object.
C23_LoadedOnce ==
    NoLoadFailed =>
        /\ fetched <= 1
        /\ \A i, j \in 1..Len(loads) :
             (loads[i].pc = "resolved" /\ loads[j].pc = "resolved")
                => loads[i].value = loads[j].value

\* C24: the isLoaded member of the PantoneDatabase public API is false before
\* load() succeeds and true in every state after a load() has completed
\* successfully.
C24_IsLoadedMemberReportsLoad ==
    apiIsLoaded <=> \E i \in 1..Len(loads) : loads[i].pc = "resolved"

====
